---- MODULE Spec2Model ----
(***************************************************************************)
(* The GRU links of chainer/links/connection/gru.py as state machines.     *)
(*                                                                         *)
(* Arrays are rows of fixed-point numbers: the integer v stands for the    *)
(* real v / Scale.  The batch axis is dropped (every operation of the      *)
(* links acts on the rows of a batch independently), so a tensor of shape  *)
(* (1, n) is a sequence of n integers and axis 1 is the sequence index.    *)
(* A chainer.Variable is a record [data, dev]; dev tells which array       *)
(* module holds the data ("cpu" = numpy, "gpu" = cupy).                    *)
(***************************************************************************)
EXTENDS Integers, Sequences, FiniteSets, TLC

VARIABLES
    link,     \* the StatefulGRU under test: [units, xp, h]
    stack,    \* the StackedStatefulGRU under test: the sequence of its StatefulGRU layers
    sgru,     \* the StackedStatelessGRU under test: the sequence of its GRU layers
    last,     \* the most recent call: its name, arguments, result and the state it found
    changed,  \* the most recent call that assigned self.h ("init" for the constructor)
    array,    \* the ndarray handed to the Orthogonal initializer: [shape, data]
    random    \* numpy.random: [seed, drawn], drawn the count of numbers drawn from it

vars == <<link, stack, sgru, last, changed, array, random>>

---------------------------------------------------------------------------
(* Bounds of the model *)

\* fixed-point resolution: the integer v stands for v / Scale
Scale == 4
\* out_size, the dimension of a hidden vector
Units == 1
\* in_size, the dimension of an input vector
InSize == 2
\* largest num_layers a stack is constructed with
MaxLayers == 2

\* Python's None; a Variable is a record, so the two never coincide
None == <<>>
Devices == {"cpu", "gpu"}

\* components of input vectors x
XVals == {-Scale, 3}
\* components of hidden vectors handed to set_state or to the stateless links
HVals == {-Scale, 2}
\* initialW / inner_init draws, and the bias_init scalars
Seeds == {0, 1}
Biases == {0, 2}

\* the array with the elements of f, built once
Array(f) == f \o <<>>

Vectors(n, vals) == [1..n -> vals]
Zeros(n) == Array([i \in 1..n |-> 0])

---------------------------------------------------------------------------
(* Array arithmetic used by the links (chainer functions and operators)   *)

Min(a, b) == IF a < b THEN a ELSE b

\* tanh.tanh on one fixed-point number: the Pade approximant
\* x (27 + x^2) / (27 + 9 x^2), rounded to the grid and clipped to [-1, 1]
TanhPos(v) ==
    LET num == v * (27 * Scale * Scale + v * v)
        den == 27 * Scale * Scale + 9 * v * v
    IN  Min(Scale, (2 * num + den) \div (2 * den))

Tanh1(v) == IF v >= 0 THEN TanhPos(v) ELSE -TanhPos(-v)

\* sigmoid.sigmoid on one fixed-point number: (1 + tanh(x / 2)) / 2
Sigmoid1(v) ==
    LET num == v * (108 * Scale * Scale + v * v)
        den == 2 * (108 * Scale * Scale + 9 * v * v)
        t   == IF v >= 0 THEN (2 * num + den) \div (2 * den)
                         ELSE -((2 * (-num) + den) \div (2 * den))
        s   == (Scale + t) \div 2
    IN  IF s < 0 THEN 0 ELSE Min(Scale, s)

sigmoid(a) == Array([i \in 1..Len(a) |-> Sigmoid1(a[i])])
tanh(a) == Array([i \in 1..Len(a) |-> Tanh1(a[i])])

\* a + b, a * b and 1 - a on arrays, element-wise
Add(a, b) == Array([i \in 1..Len(a) |-> a[i] + b[i]])
Mul(a, b) == Array([i \in 1..Len(a) |-> (a[i] * b[i]) \div Scale])
OneMinus(a) == Array([i \in 1..Len(a) |-> Scale - a[i]])

RECURSIVE Dot(_, _, _)
Dot(w, x, n) == IF n = 0 THEN 0 ELSE Dot(w, x, n - 1) + w[n] * x[n]

\* linear.Linear(in_size, out_size, initialW, initial_bias): the weight
\* matrix the initializer draws (initialW names the draw) and a bias vector
\* filled with initial_bias
Linear(in_size, out_size, initialW, initial_bias) ==
    [W |-> [r \in 1..out_size |->
               [c \in 1..in_size |->
                   (((initialW + 2 * r + c) % 4) - 1) * (Scale \div 2)]],
     b |-> [r \in 1..out_size |-> initial_bias]]

\* Linear.__call__: the affine map x W^T + b
Linear_call(self, x) ==
    Array([r \in 1..Len(self.W) |-> Dot(self.W[r], x, Len(x)) \div Scale + self.b[r]])

\* split_axis.split_axis(h, n, 1, True): the n equal sections of h
split_axis(h, n) ==
    LET w == Len(h) \div n
    IN  Array([i \in 1..n |-> Array([j \in 1..w |-> h[(i - 1) * w + j]])])

\* concat.concat(xs, 1)
RECURSIVE concat(_)
concat(xs) == IF xs = <<>> THEN <<>> ELSE Head(xs) \o concat(Tail(xs))

\* the Python slice s[start:] of a list
PySliceFrom(s, start) ==
    LET n  == Len(s)
        b  == IF start < 0 THEN start + n ELSE start
        lo == IF b < 0 THEN 0 ELSE Min(b, n)
    IN  Array([i \in 1..(n - lo) |-> s[lo + i]])

\* Variable.to_cpu / Variable.to_gpu: the same values on the other device
Variable(data, dev) == [data |-> data, dev |-> dev]
Variable_to(v, dev) == [v EXCEPT !.dev = dev]

---------------------------------------------------------------------------
(* GRUBase, GRU, StatefulGRU *)

\* GRUBase.__init__: the six linear units.  The three input units draw
\* from init and the three inner units from inner_init, each unit its own
\* draw.
GRUBase_init(n_units, n_inputs, init, inner_init, bias_init) ==
    [W_r |-> Linear(n_inputs, n_units, init, bias_init),
     U_r |-> Linear(n_units, n_units, inner_init + 1, bias_init),
     W_z |-> Linear(n_inputs, n_units, init + 1, bias_init),
     U_z |-> Linear(n_units, n_units, inner_init + 2, bias_init),
     W   |-> Linear(n_inputs, n_units, init + 2, bias_init),
     U   |-> Linear(n_units, n_units, inner_init + 3, bias_init)]

\* GRU.__call__(h, x) on the units of a link
GRU_call(self, h, x) ==
    LET r     == sigmoid(Add(Linear_call(self.W_r, x), Linear_call(self.U_r, h)))
        z     == sigmoid(Add(Linear_call(self.W_z, x), Linear_call(self.U_z, h)))
        h_bar == tanh(Add(Linear_call(self.W, x), Linear_call(self.U, Mul(r, h))))
    IN  Add(Mul(OneMinus(z), h), Mul(z, h_bar))

\* a reset_state that keeps a state the link already holds
StatefulGRU_reset_state_keeps(self) ==
    [units |-> self.units, xp |-> self.xp,
     h |-> IF "h" \in DOMAIN self THEN self.h ELSE None]

\* StatefulGRU.reset_state: assigns None to self.h (which creates the
\* attribute when the constructor calls it)
StatefulGRU_reset_state(self) == [units |-> self.units, xp |-> self.xp, h |-> None]

\* StatefulGRU.__init__: a link is made on the CPU
StatefulGRU_init(in_size, out_size, init, inner_init, bias_init) ==
    StatefulGRU_reset_state(
        [units |-> GRUBase_init(out_size, in_size, init, inner_init, bias_init),
         xp |-> "cpu"])

\* a to_cpu that drops the state it should move
StatefulGRU_to_cpu_drops(self) == [self EXCEPT !.xp = "cpu", !.h = None]

\* StatefulGRU.to_cpu
StatefulGRU_to_cpu(self) ==
    [self EXCEPT !.xp = "cpu",
                 !.h = IF self.h # None THEN Variable_to(self.h, "cpu") ELSE self.h]

\* a to_gpu that moves the parameters and leaves the state where it is
StatefulGRU_to_gpu_params_only(self) == [self EXCEPT !.xp = "gpu"]

\* StatefulGRU.to_gpu
StatefulGRU_to_gpu(self) ==
    [self EXCEPT !.xp = "gpu",
                 !.h = IF self.h # None THEN Variable_to(self.h, "gpu") ELSE self.h]

\* a set_state that keeps h on the device it came on
StatefulGRU_set_state_no_transfer(self, h) == [self EXCEPT !.h = h]

\* StatefulGRU.set_state(h), h a Variable
StatefulGRU_set_state(self, h) ==
    LET h_ == IF self.xp = "cpu" THEN Variable_to(h, "cpu") ELSE Variable_to(h, "gpu")
    IN  [self EXCEPT !.h = h_]

\* the value h_new of StatefulGRU.__call__(x)
StatefulGRU_h_new(self, x) ==
    LET u     == self.units
        z0    == Linear_call(u.W_z, x.data)
        hb0   == Linear_call(u.W, x.data)
        r     == sigmoid(Add(Linear_call(u.W_r, x.data), Linear_call(u.U_r, self.h.data)))
        z1    == IF self.h # None THEN Add(z0, Linear_call(u.U_z, self.h.data)) ELSE z0
        hb1   == IF self.h # None
                 THEN Add(hb0, Linear_call(u.U, Mul(r, self.h.data))) ELSE hb0
        z     == sigmoid(z1)
        h_bar == tanh(hb1)
        h_new == Mul(z, h_bar)
    IN  Variable(IF self.h # None THEN Add(h_new, Mul(OneMinus(z), self.h.data)) ELSE h_new,
                 x.dev)

\* a __call__ that returns h_new and does not assign it
StatefulGRU_call_no_assign(self, x) ==
    [self |-> self, ret |-> StatefulGRU_h_new(self, x)]

\* StatefulGRU.__call__(x): assigns h_new to self.h and returns self.h
StatefulGRU_call(self, x) ==
    LET after == [self EXCEPT !.h = StatefulGRU_h_new(self, x)]
    IN  [self |-> after, ret |-> after.h]

---------------------------------------------------------------------------
(* The calls a program makes on one StatefulGRU *)

\* the record of a call: op its name, x / h / top_n its arguments (None when
\* the call has no such argument), ret what it returned, calls the calls it
\* made on the layers of a stack, pre the hidden state(s) it found, after
\* the name of the call before it, raised the exception it ended with (None
\* when it returned)
NoCall == [op |-> "init", x |-> None, h |-> None, top_n |-> None,
           ret |-> None, calls |-> <<>>, pre |-> None, after |-> "init",
           raised |-> None]

\* the record of the call op, made when the latest call was last
Call(op) == [NoCall EXCEPT !.op = op, !.after = last.op]

InitCell ==
    /\ \E init \in Seeds, inner_init \in Seeds, bias_init \in Biases :
           link = StatefulGRU_init(InSize, Units, init, inner_init, bias_init)
    /\ stack = None
    /\ sgru = None
    /\ last = NoCall
    /\ changed = "init"
    /\ array = None
    /\ random = None

CellForward ==
    \E data \in Vectors(InSize, XVals) :
        LET x == Variable(data, link.xp)
            call == StatefulGRU_call(link, x)
        IN  /\ link' = call.self
            /\ last' = [Call("forward") EXCEPT !.x = x,
                                      !.ret = call.ret, !.pre = link.h]
            /\ changed' = "forward"
            /\ UNCHANGED <<stack, sgru, array, random>>

CellSetState ==
    \E data \in Vectors(Units, HVals), dev \in Devices :
        LET h == Variable(data, dev)
        IN  /\ link' = StatefulGRU_set_state(link, h)
            /\ last' = [Call("set_state") EXCEPT !.h = h, !.pre = link.h]
            /\ changed' = "set_state"
            /\ UNCHANGED <<stack, sgru, array, random>>

CellResetState ==
    /\ link' = StatefulGRU_reset_state(link)
    /\ last' = [Call("reset_state") EXCEPT !.pre = link.h]
    /\ changed' = "reset_state"
    /\ UNCHANGED <<stack, sgru, array, random>>

CellToCpu ==
    /\ link' = StatefulGRU_to_cpu(link)
    /\ last' = [Call("to_cpu") EXCEPT !.pre = link.h]
    /\ UNCHANGED <<stack, sgru, changed, array, random>>

CellToGpu ==
    /\ link' = StatefulGRU_to_gpu(link)
    /\ last' = [Call("to_gpu") EXCEPT !.pre = link.h]
    /\ UNCHANGED <<stack, sgru, changed, array, random>>

NextCell ==
    \/ CellForward
    \/ CellSetState
    \/ CellResetState
    \/ CellToCpu
    \/ CellToGpu

SpecCell == InitCell /\ [][NextCell]_vars

---------------------------------------------------------------------------
(* Properties of one StatefulGRU *)

Transfers == {"to_cpu", "to_gpu"}

\* C1: after a forward call the retained state is the value the call
\* returned, and a forward call that follows a forward call computes the
\* GRU recurrence from the value the earlier call returned.
C1_StateIsLastOutput ==
    [][last'.op = "forward" =>
          /\ link'.h = last'.ret
          /\ last.op = "forward" =>
                 last'.ret.data = GRU_call(link.units, last.ret.data, last'.x.data)]_vars

C1_Witness ==
    /\ last.op = "forward"
    /\ last.after = "forward"
    /\ last.pre # None
    /\ link.h = last.ret
    /\ last.ret.data # last.pre.data

\* C2: the state is absent exactly when the last call that assigned it was
\* the constructor or reset_state, present exactly when it was a forward
\* call or set_state, and a transfer keeps its presence.
C2_PresenceFollowsLastChange ==
    /\ (link.h = None) <=> (changed \in {"init", "reset_state"})
    /\ (link.h # None) <=> (changed \in {"forward", "set_state"})
    /\ last.op \in Transfers => ((link.h = None) <=> (last.pre = None))

C2_Witness ==
    /\ last.op = "reset_state"
    /\ last.pre # None
    /\ link.h = None

\* C3: a forward call that finds no state returns what the stateless
\* recurrence returns on the same units with h the zero vector.
C3_AbsentEqualsZeroHidden ==
    (last.op = "forward" /\ last.pre = None) =>
        last.ret.data = GRU_call(link.units, Zeros(Units), last.x.data)

\* C4: a forward call right after reset_state returns, and retains, what
\* the same call returns on a newly constructed link with the same
\* parameters on the same device.
C4_ResetForgetsHistory ==
    (last.op = "forward" /\ last.after = "reset_state") =>
        \E init \in Seeds, inner_init \in Seeds, bias_init \in Biases :
            LET made  == StatefulGRU_init(InSize, Units, init, inner_init, bias_init)
                fresh == IF link.xp = "gpu" THEN StatefulGRU_to_gpu(made) ELSE made
                call  == StatefulGRU_call(fresh, last.x)
            IN  /\ made.units = link.units
                /\ last.ret = call.ret
                /\ link = call.self

C4_Witness ==
    /\ last.op = "forward"
    /\ last.after = "reset_state"
    /\ link.xp = "gpu"
    /\ link.units.U.b # Zeros(Units)

---------------------------------------------------------------------------
(* StackedStatefulGRU *)

\* StackedStatefulGRU.reset_state
StackedStatefulGRU_reset_state(self) ==
    [self EXCEPT !.layers = [i \in DOMAIN self.layers |->
                                StatefulGRU_reset_state(self.layers[i])]]

\* StackedStatefulGRU.__init__.  Every layer is made with the default
\* initializers and bias_init; rng names what they draw, a different
\* matrix for every unit of every layer.
StackedStatefulGRU_init(in_size, out_size, num_layers, rng) ==
    StackedStatefulGRU_reset_state(
        [layers |-> [i \in 1..num_layers |->
                        StatefulGRU_init(IF i = 1 THEN in_size ELSE out_size, out_size,
                                         rng + i, rng + i + 1, 0)],
         num_layers |-> num_layers])

\* StackedStatefulGRU.to_cpu
StackedStatefulGRU_to_cpu(self) ==
    [self EXCEPT !.layers = [i \in DOMAIN self.layers |->
                                StatefulGRU_to_cpu(self.layers[i])]]

\* StackedStatefulGRU.to_gpu
StackedStatefulGRU_to_gpu(self) ==
    [self EXCEPT !.layers = [i \in DOMAIN self.layers |->
                                StatefulGRU_to_gpu(self.layers[i])]]

\* a set_state that hands the slices to the layers in reverse order
StackedStatefulGRU_set_state_reversed(self, h) ==
    LET hs == split_axis(h.data, self.num_layers)
    IN  [self EXCEPT !.layers =
            [i \in DOMAIN self.layers |->
                StatefulGRU_set_state(self.layers[i],
                                      Variable(hs[self.num_layers + 1 - i], h.dev))]]

\* StackedStatefulGRU.set_state(h): zip(self, split_axis(h, num_layers, 1))
StackedStatefulGRU_set_state(self, h) ==
    LET hs == split_axis(h.data, self.num_layers)
    IN  [self EXCEPT !.layers =
            [i \in DOMAIN self.layers |->
                StatefulGRU_set_state(self.layers[i], Variable(hs[i], h.dev))]]

\* a loop that computes the outputs and lets no layer retain its own
RECURSIVE StackedStatefulGRU_loop_no_store(_, _, _)
StackedStatefulGRU_loop_no_store(layers, k, x) ==
    IF k = 0
    THEN [layers |-> layers, h_curr |-> x, h_list |-> <<>>, calls |-> <<>>]
    ELSE LET s == StackedStatefulGRU_loop_no_store(layers, k - 1, x)
             c == StatefulGRU_call(s.layers[k], s.h_curr)
         IN  [layers |-> s.layers,
              h_curr |-> c.ret,
              h_list |-> Append(s.h_list, c.ret),
              calls  |-> Append(s.calls, [layer |-> k, x |-> s.h_curr, ret |-> c.ret])]

\* the loop of StackedStatefulGRU.__call__ after its first k iterations:
\* the layers, h_curr, h_list, and the calls made on the layers so far
RECURSIVE StackedStatefulGRU_loop(_, _, _)
StackedStatefulGRU_loop(layers, k, x) ==
    IF k = 0
    THEN [layers |-> layers, h_curr |-> x, h_list |-> <<>>, calls |-> <<>>]
    ELSE LET s == StackedStatefulGRU_loop(layers, k - 1, x)
             c == StatefulGRU_call(s.layers[k], s.h_curr)
         IN  [layers |-> [s.layers EXCEPT ![k] = c.self],
              h_curr |-> c.ret,
              h_list |-> Append(s.h_list, c.ret),
              calls  |-> Append(s.calls, [layer |-> k, x |-> s.h_curr, ret |-> c.ret])]

\* StackedStatefulGRU.__call__(x, top_n).  top_n is None when the argument
\* is omitted and the one-element tuple <<k>> when the caller passes k.
StackedStatefulGRU_call(self, x, top_n) ==
    LET n    == IF top_n = None THEN self.num_layers ELSE top_n[1]
        done == StackedStatefulGRU_loop(self.layers, Len(self.layers), x)
        top  == PySliceFrom(done.h_list, -n)
    IN  [self  |-> [self EXCEPT !.layers = done.layers],
         ret   |-> Variable(concat(Array([i \in DOMAIN top |-> top[i].data])), x.dev),
         calls |-> done.calls]

---------------------------------------------------------------------------
(* The calls a program makes on one StackedStatefulGRU *)

\* a hidden tensor of width n whose components all differ
Ramp(n, a) == Array([i \in 1..n |-> ((a + 2 * i) % (2 * Scale + 1)) - Scale])

\* the hidden states of the layers
States(self) == [i \in DOMAIN self.layers |-> self.layers[i].h]

InitStack ==
    /\ \E num_layers \in 1..MaxLayers :
         \E rng \in Seeds :
           stack = StackedStatefulGRU_init(InSize, Units, num_layers, rng)
    /\ link = None
    /\ sgru = None
    /\ last = NoCall
    /\ changed = "init"
    /\ array = None
    /\ random = None

StackForward ==
    \E data \in {Ramp(InSize, a) : a \in XVals} :
      \E top_n \in {None} \cup {<<k>> : k \in 0..stack.num_layers} :
        LET x    == Variable(data, stack.layers[1].xp)
            call == StackedStatefulGRU_call(stack, x, top_n)
        IN  /\ stack' = call.self
            /\ last' = [Call("forward") EXCEPT !.x = x, !.top_n = top_n,
                            !.ret = call.ret, !.calls = call.calls,
                            !.pre = States(stack)]
            /\ changed' = "forward"
            /\ UNCHANGED <<link, sgru, array, random>>

StackSetState ==
    \E a \in HVals, dev \in Devices :
        LET h == Variable(Ramp(stack.num_layers * Units, a), dev)
        IN  /\ stack' = StackedStatefulGRU_set_state(stack, h)
            /\ last' = [Call("set_state") EXCEPT !.h = h, !.pre = States(stack)]
            /\ changed' = "set_state"
            /\ UNCHANGED <<link, sgru, array, random>>

StackResetState ==
    /\ stack' = StackedStatefulGRU_reset_state(stack)
    /\ last' = [Call("reset_state") EXCEPT !.pre = States(stack)]
    /\ changed' = "reset_state"
    /\ UNCHANGED <<link, sgru, array, random>>

StackToCpu ==
    /\ stack' = StackedStatefulGRU_to_cpu(stack)
    /\ last' = [Call("to_cpu") EXCEPT !.pre = States(stack)]
    /\ UNCHANGED <<link, sgru, changed, array, random>>

StackToGpu ==
    /\ stack' = StackedStatefulGRU_to_gpu(stack)
    /\ last' = [Call("to_gpu") EXCEPT !.pre = States(stack)]
    /\ UNCHANGED <<link, sgru, changed, array, random>>

NextStack ==
    \/ StackForward
    \/ StackSetState
    \/ StackResetState
    \/ StackToCpu
    \/ StackToGpu

SpecStack == InitStack /\ [][NextStack]_vars

---------------------------------------------------------------------------
(* Properties of one StackedStatefulGRU *)

\* the number of outputs a forward call was asked for
Wanted == IF last.top_n = None THEN stack.num_layers ELSE last.top_n[1]

\* C7: a forward call returns the concatenation, in layer order, of the
\* outputs of exactly the last top_n layers, for top_n from 0 to n, and of
\* all n layers when top_n is omitted.
C7_TopNSelectsLastLayers ==
    last.op = "forward" =>
        LET n == stack.num_layers
        IN  last.ret.data =
                concat(Array([i \in 1..Wanted |-> last.calls[n - Wanted + i].ret.data]))

\* C8: in a forward call layer 1 is called with x and every later layer
\* with the output of the layer before it, in layer order; each call
\* returns what the layer computes from the state it had, and afterwards
\* every layer retains its own output, whatever top_n is.
C8_LayersChainAndRetain ==
    last.op = "forward" =>
        /\ Len(last.calls) = stack.num_layers
        /\ \A i \in 1..stack.num_layers :
             LET before == [stack.layers[i] EXCEPT !.h = last.pre[i]]
             IN  /\ last.calls[i].layer = i
                 /\ last.calls[i].x = IF i = 1 THEN last.x ELSE last.calls[i - 1].ret
                 /\ last.calls[i].ret = StatefulGRU_h_new(before, last.calls[i].x)
                 /\ stack.layers[i].h = last.calls[i].ret

C8_Witness ==
    /\ last.op = "forward"
    /\ stack.num_layers >= 2
    /\ last.top_n = <<1>>
    /\ last.pre[1] # None
    /\ stack.layers[1].h # stack.layers[2].h
    /\ stack.layers[1].h # last.pre[1]

\* C10: after set_state(h) layer i holds the i-th of the n equal slices of
\* h, whatever the layers held before; after reset_state no layer holds a
\* state.
C10_SetStateSlices ==
    /\ last.op = "set_state" =>
           LET n == stack.num_layers
               w == Len(last.h.data) \div n
           IN  \A i \in 1..n :
                   /\ stack.layers[i].h # None
                   /\ stack.layers[i].h.data = SubSeq(last.h.data, (i - 1) * w + 1, i * w)
    /\ last.op = "reset_state" => \A i \in 1..stack.num_layers : stack.layers[i].h = None

C10_Witness ==
    /\ last.op = "set_state"
    /\ stack.num_layers >= 2
    /\ last.pre[1] # None
    /\ last.pre[1].data # stack.layers[1].h.data
    /\ stack.layers[1].h.data # stack.layers[2].h.data

---------------------------------------------------------------------------
(* StackedStatelessGRU *)

\* StackedStatelessGRU.__init__: GRU(out_size, in_size), then GRU(out_size,
\* out_size) for the other layers; rng names what the default initializers
\* draw, a different matrix for every unit of every layer.
StackedStatelessGRU_init(in_size, out_size, num_layers, rng) ==
    [layers |-> [i \in 1..num_layers |->
                    GRUBase_init(out_size, IF i = 1 THEN in_size ELSE out_size,
                                 rng + i, rng + i + 1, 0)],
     num_layers |-> num_layers]

\* a loop in which every layer reads the first slice of the hidden tensor
RECURSIVE StackedStatelessGRU_loop_first_slice(_, _, _, _)
StackedStatelessGRU_loop_first_slice(layers, hs, k, x) ==
    IF k = 0
    THEN <<>>
    ELSE LET h_list == StackedStatelessGRU_loop_first_slice(layers, hs, k - 1, x)
             h_curr == IF k = 1 THEN x ELSE h_list[k - 1]
         IN  Append(h_list, GRU_call(layers[k], hs[1], h_curr))

\* h_list after the first k iterations of the loop of
\* StackedStatelessGRU.__call__ over zip(self, h)
RECURSIVE StackedStatelessGRU_loop(_, _, _, _)
StackedStatelessGRU_loop(layers, hs, k, x) ==
    IF k = 0
    THEN <<>>
    ELSE LET h_list == StackedStatelessGRU_loop(layers, hs, k - 1, x)
             h_curr == IF k = 1 THEN x ELSE h_list[k - 1]
         IN  Append(h_list, GRU_call(layers[k], hs[k], h_curr))

\* StackedStatelessGRU.__call__(h, x)
StackedStatelessGRU_call(self, h, x) ==
    LET hs == split_axis(h, self.num_layers)
    IN  concat(StackedStatelessGRU_loop(self.layers, hs,
                                        Min(Len(self.layers), Len(hs)), x))

---------------------------------------------------------------------------
(* The calls a program makes on one StackedStatelessGRU *)

InitStateless ==
    /\ \E num_layers \in 1..MaxLayers :
         \E rng \in Seeds :
           sgru = StackedStatelessGRU_init(InSize, Units, num_layers, rng)
    /\ link = None
    /\ stack = None
    /\ last = NoCall
    /\ changed = "init"
    /\ array = None
    /\ random = None

StatelessForward ==
    \E h \in {Ramp(sgru.num_layers * Units, a) : a \in 0..Scale} :
      \E x \in Vectors(InSize, XVals \cup {1}) :
        /\ last' = [Call("forward") EXCEPT !.h = h, !.x = x,
                        !.ret = StackedStatelessGRU_call(sgru, h, x)]
        /\ UNCHANGED <<link, stack, sgru, changed, array, random>>

NextStateless == StatelessForward

SpecStateless == InitStateless /\ [][NextStateless]_vars

\* the i-th of n equal slices of the array a
Slice(a, n, i) == SubSeq(a, (i - 1) * (Len(a) \div n) + 1, i * (Len(a) \div n))

---------------------------------------------------------------------------
(* The Orthogonal initializer of chainer/initializers/orthogonal.py *)

\* largest length of an axis, and largest number of axes, of an array
MaxDim == 2
MaxRank == 2
\* the initializer is called while numpy.random has drawn at most this much
MaxDrawn == 6

\* the shapes of the arrays handed to the initializer
Shapes == UNION {[1..k -> 0..MaxDim] : k \in 0..MaxRank}

\* numpy.prod of a tuple of axis lengths
RECURSIVE Prod(_)
Prod(shape) == IF shape = <<>> THEN 1 ELSE Head(shape) * Prod(Tail(shape))

\* an exception with its arguments
Raise(type, args) == [type |-> type, args |-> args]

\* numpy.random.standard_normal(flat_shape): n more numbers of the stream
\* of the seed, and the generator after drawing them
standard_normal(gen, n) ==
    [a   |-> Array([i \in 1..n |->
                       (((gen.seed + 3 * (gen.drawn + i)) % (2 * Scale + 1)) - Scale)]),
     gen |-> [gen EXCEPT !.drawn = gen.drawn + n]]

\* numpy.linalg.svd(a, full_matrices=False) and the choice of u or v: an
\* orthonormal system of rows vectors of dimension cols that the sample
\* decides, here unit vectors along distinct axes with the signs of a
svd_q(a, rows, cols) ==
    LET shift == IF a[1] < 0 THEN 1 ELSE 0
    IN  Array([k \in 1..(rows * cols) |->
                  LET r == (k - 1) \div cols + 1
                      c == ((k - 1) % cols) + 1
                  IN  IF c = ((r - 1 + shift) % cols) + 1
                      THEN (IF a[k] < 0 THEN -Scale ELSE Scale)
                      ELSE 0])

\* an initializer that draws its sample before it looks at the shape
Orthogonal_call_draws_first(self, arr, gen) ==
    IF arr.shape = <<>>
    THEN [array |-> [arr EXCEPT !.data = <<self.scale>>], rng |-> gen, raised |-> None]
    ELSE IF Prod(arr.shape) # 0
    THEN LET rows == arr.shape[1]
             cols == Prod(Tail(arr.shape))
             draw == standard_normal(gen, rows * cols)
         IN  IF rows > cols
             THEN [array |-> arr, rng |-> draw.gen,
                   raised |-> Raise("ValueError", <<rows, cols>>)]
             ELSE [array |-> [arr EXCEPT !.data =
                                 Mul(svd_q(draw.a, rows, cols),
                                     Array([k \in 1..(rows * cols) |-> self.scale]))],
                   rng |-> draw.gen, raised |-> None]
    ELSE [array |-> arr, rng |-> gen, raised |-> None]

\* Orthogonal.__call__(array): the array and numpy.random after the call,
\* and the exception raised
Orthogonal_call(self, arr, gen) ==
    IF arr.shape = <<>>
    THEN [array |-> [arr EXCEPT !.data = <<self.scale>>], rng |-> gen, raised |-> None]
    ELSE IF Prod(arr.shape) # 0
    THEN LET rows == arr.shape[1]
             cols == Prod(Tail(arr.shape))
             draw == standard_normal(gen, rows * cols)
         IN  IF rows > cols
             THEN [array |-> arr, rng |-> gen,
                   raised |-> Raise("ValueError", <<rows, cols>>)]
             ELSE [array |-> [arr EXCEPT !.data =
                                 Mul(svd_q(draw.a, rows, cols),
                                     Array([k \in 1..(rows * cols) |-> self.scale]))],
                   rng |-> draw.gen, raised |-> None]
    ELSE [array |-> arr, rng |-> gen, raised |-> None]

\* an array of some shape with whatever it held, and a seeded numpy.random
InitOrthogonal ==
    /\ \E shape \in Shapes :
           array = [shape |-> shape,
                    data |-> Array([k \in 1..Prod(shape) |-> k])]
    /\ \E seed \in Seeds : random = [seed |-> seed, drawn |-> 0]
    /\ link = None
    /\ stack = None
    /\ sgru = None
    /\ last = NoCall
    /\ changed = "init"

OrthogonalCall ==
    /\ random.drawn <= MaxDrawn
    /\ \E scale \in {Scale, 2 * Scale} :
         LET call == Orthogonal_call([scale |-> scale], array, random)
         IN  /\ array' = call.array
             /\ random' = call.rng
             /\ last' = [Call("initialize") EXCEPT !.x = scale,
                             !.pre = [array |-> array, rng |-> random],
                             !.raised = call.raised]
    /\ UNCHANGED <<link, stack, sgru, changed>>

NextOrthogonal == OrthogonalCall

SpecOrthogonal == InitOrthogonal /\ [][NextOrthogonal]_vars

\* the rows and columns of the matrix an array of at least one axis is seen as
Rows == array.shape[1]
Cols == Prod(Tail(array.shape))

\* C11 as claimed: for every shape of at least one axis with rows > cols the
\* call raises ValueError with both counts, draws nothing and writes
\* nothing; for rows <= cols it raises nothing.
C11_RowsOverColsFails ==
    (last.op = "initialize" /\ array.shape # <<>>) =>
        IF Rows > Cols
        THEN /\ last.raised = Raise("ValueError", <<Rows, Cols>>)
             /\ array = last.pre.array
             /\ random = last.pre.rng
        ELSE last.raised = None

\* C11 amended: the same for arrays that hold at least one element; an array
\* with an axis of length 0 is left as it is, nothing is drawn and nothing
\* is raised, whatever its rows and columns.
C11_NonEmptyRowsOverColsFails ==
    (last.op = "initialize" /\ array.shape # <<>>) =>
        IF Prod(array.shape) = 0
        THEN /\ last.raised = None
             /\ array = last.pre.array
             /\ random = last.pre.rng
        ELSE IF Rows > Cols
        THEN /\ last.raised = Raise("ValueError", <<Rows, Cols>>)
             /\ array = last.pre.array
             /\ random = last.pre.rng
        ELSE last.raised = None

C11_Witness ==
    /\ last.op = "initialize"
    /\ Len(array.shape) = 2
    /\ Rows > Cols
    /\ Cols >= 1
    /\ last.raised # None
    /\ random.seed = 1

---------------------------------------------------------------------------
(* Calls that fail *)

\* isinstance(h, chainer.Variable); an argument that is no Variable is a
\* bare array, written [ndarray |-> data]
IsVariable(h) == "dev" \in DOMAIN h

\* top_n is an int when it is <<k>>; <<a, b>> stands for the float a / b
IsInt(top_n) == Len(top_n) = 1

\* the calls W_r(x), U_r(h), ... of a layer go through: x and the state are
\* on the device of the units and have the widths of their weight matrices
Accepts(self, x) ==
    /\ x.dev = self.xp
    /\ Len(x.data) = Len(self.units.W_z.W[1])
    /\ self.h # None => /\ self.h.dev = self.xp
                        /\ Len(self.h.data) = Len(self.units.U_z.W[1])

\* StatefulGRU.set_state(h) for any argument: the assert, then the assignment
StatefulGRU_set_state_outcome(self, h) ==
    IF ~IsVariable(h)
    THEN [self |-> self, raised |-> Raise("AssertionError", <<>>)]
    ELSE [self |-> StatefulGRU_set_state(self, h), raised |-> None]

\* StatefulGRU.__call__(x) for any x: a unit that rejects its argument
\* raises before self.h is assigned
StatefulGRU_call_outcome(self, x) ==
    IF ~Accepts(self, x)
    THEN [self |-> self, ret |-> None, raised |-> Raise("InvalidType", <<>>)]
    ELSE StatefulGRU_call(self, x) @@ [raised |-> None]

\* StackedStatefulGRU.set_state(h) for a Variable of any width: split_axis
\* raises when the width is no multiple of num_layers
StackedStatefulGRU_set_state_outcome(self, h) ==
    IF Len(h.data) % self.num_layers # 0
    THEN [self |-> self, raised |-> Raise("InvalidType", <<>>)]
    ELSE [self |-> StackedStatefulGRU_set_state(self, h), raised |-> None]

\* h_list.append(h_curr) in the loop of StackedStatefulGRU.__call__, c being
\* the outcome of the call of layer k: a call that raises ends the loop
StackedStatefulGRU_append(s, k, c) ==
    IF c.raised # None
    THEN [s EXCEPT !.raised = c.raised]
    ELSE [layers |-> [s.layers EXCEPT ![k] = c.self],
          h_curr |-> c.ret,
          h_list |-> Append(s.h_list, c.ret),
          calls  |-> Append(s.calls, [layer |-> k, x |-> s.h_curr, ret |-> c.ret]),
          raised |-> None]

\* iteration k of the loop, s being the loop after k - 1 iterations
StackedStatefulGRU_iteration(s, k) ==
    IF s.raised # None
    THEN s
    ELSE StackedStatefulGRU_append(s, k, StatefulGRU_call_outcome(s.layers[k], s.h_curr))

\* the loop of StackedStatefulGRU.__call__ after its first k iterations,
\* for any x
RECURSIVE StackedStatefulGRU_loop_outcome(_, _, _)
StackedStatefulGRU_loop_outcome(layers, k, x) ==
    IF k = 0
    THEN [layers |-> layers, h_curr |-> x, h_list |-> <<>>, calls |-> <<>>,
          raised |-> None]
    ELSE StackedStatefulGRU_iteration(StackedStatefulGRU_loop_outcome(layers, k - 1, x), k)

\* concat.concat(h_list[-top_n:], 1) after the loop: the slice raises
\* TypeError when top_n is no int
StackedStatefulGRU_concat_outcome(self, done, x, top_n) ==
    IF done.raised = None /\ top_n # None /\ ~IsInt(top_n)
    THEN [self |-> [self EXCEPT !.layers = done.layers], ret |-> None,
          calls |-> done.calls, raised |-> Raise("TypeError", <<>>)]
    ELSE [self |-> [self EXCEPT !.layers = done.layers],
          ret |-> IF done.raised # None THEN None
                  ELSE LET top == PySliceFrom(done.h_list,
                                      -(IF top_n = None THEN self.num_layers
                                        ELSE top_n[1]))
                       IN  Variable(concat(Array([i \in DOMAIN top |-> top[i].data])),
                                    x.dev),
          calls |-> done.calls, raised |-> done.raised]

\* StackedStatefulGRU.__call__(x, top_n) for any x and top_n
StackedStatefulGRU_call_outcome(self, x, top_n) ==
    StackedStatefulGRU_concat_outcome(
        self, StackedStatefulGRU_loop_outcome(self.layers, Len(self.layers), x), x, top_n)

---------------------------------------------------------------------------
(* The calls a program makes, with valid and invalid arguments, on one      *)
(* StatefulGRU or on one StackedStatefulGRU                                 *)

InitFaults ==
    /\ \/ /\ link = StatefulGRU_init(InSize, Units, 0, 1, 0)
          /\ stack = None
       \/ /\ link = None
          /\ \E num_layers \in 1..MaxLayers :
                stack = StackedStatefulGRU_init(InSize, Units, num_layers, 0)
    /\ sgru = None
    /\ last = NoCall
    /\ changed = "init"
    /\ array = None
    /\ random = None

\* set_state(h) on the link: a Variable of the right or of a wrong width,
\* on either device, or a bare array
FaultsCellSetState ==
    /\ link # None
    /\ \E h \in {Variable(data, dev) :
                    data \in Vectors(Units, HVals) \cup {Ramp(Units + 1, 0)},
                    dev \in Devices}
                \cup {[ndarray |-> data] : data \in Vectors(Units, HVals)} :
         LET out == StatefulGRU_set_state_outcome(link, h)
         IN  /\ link' = out.self
             /\ last' = [Call("set_state") EXCEPT !.h = h, !.pre = link.h,
                             !.raised = out.raised]
             /\ changed' = IF out.raised = None THEN "set_state" ELSE changed
    /\ UNCHANGED <<stack, sgru, array, random>>

\* forward(x) on the link: x of the right or of a wrong width, on either device
FaultsCellForward ==
    /\ link # None
    /\ \E data \in {Ramp(InSize, a) : a \in XVals} \cup {Ramp(InSize + 1, 0)},
          dev \in Devices :
         LET x   == Variable(data, dev)
             out == StatefulGRU_call_outcome(link, x)
         IN  /\ link' = out.self
             /\ last' = [Call("forward") EXCEPT !.x = x, !.ret = out.ret,
                             !.pre = link.h, !.raised = out.raised]
             /\ changed' = IF out.raised = None THEN "forward" ELSE changed
    /\ UNCHANGED <<stack, sgru, array, random>>

\* set_state(h) on the stack: h of width num_layers * out_size, or one more
FaultsStackSetState ==
    /\ stack # None
    /\ \E w \in {stack.num_layers * Units, stack.num_layers * Units + 1},
          a \in HVals, dev \in Devices :
         LET h   == Variable(Ramp(w, a), dev)
             out == StackedStatefulGRU_set_state_outcome(stack, h)
         IN  /\ stack' = out.self
             /\ last' = [Call("set_state") EXCEPT !.h = h, !.pre = States(stack),
                             !.raised = out.raised]
             /\ changed' = IF out.raised = None THEN "set_state" ELSE changed
    /\ UNCHANGED <<link, sgru, array, random>>

\* forward(x, top_n) on the stack: x of the right or of a wrong width,
\* top_n omitted, an int, or the float 3 / 2
FaultsStackForward ==
    /\ stack # None
    /\ \E data \in {Ramp(InSize, a) : a \in XVals} \cup {Ramp(InSize + 1, 0)},
          top_n \in {None, <<1>>, <<3, 2>>} :
         LET x   == Variable(data, stack.layers[1].xp)
             out == StackedStatefulGRU_call_outcome(stack, x, top_n)
         IN  /\ stack' = out.self
             /\ last' = [Call("forward") EXCEPT !.x = x, !.top_n = top_n,
                             !.ret = out.ret, !.calls = out.calls,
                             !.pre = States(stack), !.raised = out.raised]
             /\ changed' = IF out.calls # <<>> THEN "forward" ELSE changed
    /\ UNCHANGED <<link, sgru, array, random>>

NextFaults ==
    \/ FaultsCellSetState
    \/ FaultsCellForward
    \/ link # None /\ CellResetState
    \/ link # None /\ CellToCpu
    \/ link # None /\ CellToGpu
    \/ FaultsStackSetState
    \/ FaultsStackForward
    \/ stack # None /\ StackResetState
    \/ stack # None /\ StackToCpu
    \/ stack # None /\ StackToGpu

SpecFaults == InitFaults /\ [][NextFaults]_vars

\* the hidden state of the link, or the hidden states of the layers
Retained == IF link # None THEN link.h ELSE States(stack)

\* C12: a set_state or forward call that raises leaves the hidden state of
\* the link, and of every layer of the stack, as the call found it.
C12_FailedCallKeepsState ==
    last.raised # None => Retained = last.pre

====
